---------------------------- MODULE Spec2Model ----------------------------
(***************************************************************************)
(* A model of the KiteConnect REST client of src/src/connect.rs.           *)
(*                                                                         *)
(* Strings of the program are sequences of one-character strings (Text),   *)
(* so that formatting, encoding and parsing are computed, not assumed.     *)
(* A client instance is the triple api_key / access_token /                *)
(* session_expiry_hook; an asynchronous method is a sequence of steps      *)
(* between its suspension points (.await): the call itself up to the       *)
(* first suspension, the resolution of the host digest (wasm32 only), the  *)
(* resolution of send(), the resolution of the body read.                  *)
(***************************************************************************)
EXTENDS Integers, Sequences, FiniteSets, TLC

(***************************************************************************)
(* Bounds of the model.                                                    *)
(***************************************************************************)
\* how many of the candidate access tokens a caller may pass in
NumTokens == 3
\* the longest instruments list given to trigger_range
MaxInstruments == 2

(***************************************************************************)
(* Text helpers.                                                           *)
(***************************************************************************)
\* the printable ASCII characters 32..126 in code order (code 96, the grave
\* accent, is held by a placeholder: no text of the model contains it)
AsciiTable ==
    << " ", "!", "\"", "#", "$", "%", "&", "'", "(", ")", "*", "+", ",", "-",
       ".", "/", "0", "1", "2", "3", "4", "5", "6", "7", "8", "9", ":", ";",
       "<", "=", ">", "?", "@", "A", "B", "C", "D", "E", "F", "G", "H", "I",
       "J", "K", "L", "M", "N", "O", "P", "Q", "R", "S", "T", "U", "V", "W",
       "X", "Y", "Z", "[", "\\", "]", "^", "_", "grave", "a", "b", "c", "d", "e",
       "f", "g", "h", "i", "j", "k", "l", "m", "n", "o", "p", "q", "r", "s",
       "t", "u", "v", "w", "x", "y", "z", "{", "|", "}", "~" >>

\* the byte of each character of the model's texts
ByteTable ==
    [c \in {AsciiTable[i] : i \in 1..Len(AsciiTable)} \cup {"\n", "\t", "\r"} |->
        IF c = "\n" THEN 10
        ELSE IF c = "\t" THEN 9
        ELSE IF c = "\r" THEN 13
        ELSE 31 + (CHOOSE i \in 1..Len(AsciiTable) : AsciiTable[i] = c)]

\* str::as_bytes for one character
Byte(c) == ByteTable[c]

IsDigit(c) == Byte(c) >= 48 /\ Byte(c) <= 57

IsAlnum(c) ==
    \/ IsDigit(c)
    \/ Byte(c) >= 65 /\ Byte(c) <= 90
    \/ Byte(c) >= 97 /\ Byte(c) <= 122

RECURSIVE Concat(_)
\* the concatenation of a sequence of texts
Concat(ts) == IF ts = <<>> THEN <<>> ELSE Head(ts) \o Concat(Tail(ts))

\* the text from position i to the end (Rust: &s[i-1..])
From(s, i) == SubSeq(s, i, Len(s))

\* whether text p occurs in s at position i
StartsAt(s, i, p) == i + Len(p) - 1 <= Len(s) /\ SubSeq(s, i, i + Len(p) - 1) = p

\* Option<T> as a sequence of at most one element
None == <<>>
Some(x) == <<x>>

(***************************************************************************)
(* serde_json::Value, and the decoding of a body by Response::json().      *)
(* The grammar covers objects, arrays, strings without escapes, unsigned   *)
(* integers and the three literals; an object is a function from its keys  *)
(* (a later duplicate key replaces the earlier one, as in serde_json::Map) *)
(***************************************************************************)
JNull == [t |-> "null"]
JBool(b) == [t |-> "bool", b |-> b]
JNum(digits) == [t |-> "num", n |-> digits]
JStr(s) == [t |-> "str", s |-> s]
JArr(a) == [t |-> "arr", a |-> a]
JObj(m) == [t |-> "obj", m |-> m]

\* impl Index<&str> for Value: Null when not an object or the key is absent
JIndex(v, key) ==
    IF v.t = "obj" /\ key \in DOMAIN v.m THEN v.m[key] ELSE JNull

\* Value::as_str
as_str(v) == IF v.t = "str" THEN Some(v.s) ELSE None

JsonWs == {" ", "\n", "\t", "\r"}

RECURSIVE SkipWs(_, _)
SkipWs(s, i) ==
    IF i <= Len(s) /\ s[i] \in JsonWs THEN SkipWs(s, i + 1) ELSE i

RECURSIVE FindChar(_, _, _)
\* the first position >= i of s holding c, or 0
FindChar(s, i, c) ==
    IF i > Len(s) THEN 0
    ELSE IF s[i] = c THEN i
    ELSE FindChar(s, i + 1, c)

RECURSIVE DigitsEnd(_, _)
\* the position after the run of digits starting at i
DigitsEnd(s, i) ==
    IF i <= Len(s) /\ IsDigit(s[i]) THEN DigitsEnd(s, i + 1) ELSE i

ParseFail == [ok |-> FALSE, v |-> JNull, next |-> 0]
ParseOk(v, next) == [ok |-> TRUE, v |-> v, next |-> next]

\* a string token starting at the quote at position i
ParseString(s, i) ==
    LET j == FindChar(s, i + 1, "\"")
    IN  IF j = 0 THEN ParseFail
        ELSE LET body == SubSeq(s, i + 1, j - 1)
             IN  IF \E k \in 1..Len(body) : body[k] \in {"\n", "\t", "\r", "\\"}
                 THEN ParseFail
                 ELSE ParseOk(JStr(body), j + 1)

RECURSIVE ParseValue(_, _)
RECURSIVE ParseMembers(_, _, _)
RECURSIVE ParseElements(_, _, _)

\* the members of an object from position i (after "{" or ","), given the
\* members read so far
ParseMembers(s, i, acc) ==
    LET k == SkipWs(s, i)
    IN  IF k > Len(s) \/ s[k] # "\"" THEN ParseFail
        ELSE
        LET key == ParseString(s, k)
        IN  IF ~key.ok THEN ParseFail
            ELSE
            LET c == SkipWs(s, key.next)
            IN  IF c > Len(s) \/ s[c] # ":" THEN ParseFail
                ELSE
                LET val == ParseValue(s, c + 1)
                IN  IF ~val.ok THEN ParseFail
                    ELSE
                    LET e == SkipWs(s, val.next)
                        m == (key.v.s :> val.v) @@ acc
                    IN  IF e > Len(s) THEN ParseFail
                        ELSE IF s[e] = "}" THEN ParseOk(JObj(m), e + 1)
                        ELSE IF s[e] = "," THEN ParseMembers(s, e + 1, m)
                        ELSE ParseFail

\* the elements of an array from position i (after "[" or ",")
ParseElements(s, i, acc) ==
    LET val == ParseValue(s, i)
    IN  IF ~val.ok THEN ParseFail
        ELSE
        LET e == SkipWs(s, val.next)
            a == Append(acc, val.v)
        IN  IF e > Len(s) THEN ParseFail
            ELSE IF s[e] = "]" THEN ParseOk(JArr(a), e + 1)
            ELSE IF s[e] = "," THEN ParseElements(s, e + 1, a)
            ELSE ParseFail

ParseValue(s, i) ==
    LET k == SkipWs(s, i)
    IN  IF k > Len(s) THEN ParseFail
        ELSE IF s[k] = "{" THEN
            LET n == SkipWs(s, k + 1)
            IN  IF n <= Len(s) /\ s[n] = "}" THEN ParseOk(JObj(<<>>), n + 1)
                ELSE ParseMembers(s, k + 1, <<>>)
        ELSE IF s[k] = "[" THEN
            LET n == SkipWs(s, k + 1)
            IN  IF n <= Len(s) /\ s[n] = "]" THEN ParseOk(JArr(<<>>), n + 1)
                ELSE ParseElements(s, k + 1, <<>>)
        ELSE IF s[k] = "\"" THEN ParseString(s, k)
        ELSE IF IsDigit(s[k]) THEN
            LET e == DigitsEnd(s, k)
            IN  IF e - k > 1 /\ s[k] = "0" THEN ParseFail
                ELSE ParseOk(JNum(SubSeq(s, k, e - 1)), e)
        ELSE IF StartsAt(s, k, <<"t", "r", "u", "e">>) THEN ParseOk(JBool(TRUE), k + 4)
        ELSE IF StartsAt(s, k, <<"f", "a", "l", "s", "e">>) THEN ParseOk(JBool(FALSE), k + 5)
        ELSE IF StartsAt(s, k, <<"n", "u", "l", "l">>) THEN ParseOk(JNull, k + 4)
        ELSE ParseFail

\* serde_json::from_slice: one value, then only whitespace
ParseJson(s) ==
    LET r == ParseValue(s, 1)
    IN  IF r.ok /\ SkipWs(s, r.next) = Len(s) + 1
        THEN [ok |-> TRUE, v |-> r.v]
        ELSE [ok |-> FALSE, v |-> JNull]

(***************************************************************************)
(* The CSV reader of instruments / mf_instruments (native target):         *)
(* ReaderBuilder::new() reads a header row, skips empty lines, and, not    *)
(* being flexible, fails on a record whose field count differs from the    *)
(* first record's.  Quoted fields are outside the texts of the model.      *)
(***************************************************************************)
RECURSIVE SplitOn(_, _)
\* the pieces of s between occurrences of the character sep
SplitOn(s, sep) ==
    LET j == FindChar(s, 1, sep)
    IN  IF j = 0 THEN <<s>>
        ELSE <<SubSeq(s, 1, j - 1)>> \o SplitOn(From(s, j + 1), sep)

\* the non-empty lines of a body, each split into its fields
CsvRows(body) ==
    LET lines == SelectSeq(SplitOn(body, "\n"), LAMBDA l : l # <<>>)
    IN  [i \in 1..Len(lines) |-> SplitOn(lines[i], ",")]

\* one record zipped against the header (connect.rs lines 859-866)
CsvObject(headers, record) ==
    LET idx == {i \in 1..Len(record) : i <= Len(headers)}
        keys == {headers[i] : i \in idx}
    IN  JObj([k \in keys |->
                JStr(record[CHOOSE i \in idx :
                        /\ headers[i] = k
                        /\ \A j \in idx : headers[j] = k => j <= i])])

\* a variant of CsvToJson that does not set the header row apart and emits
\* it as the first record
CsvToJsonWithHeaderRecord(body) ==
    LET rows == CsvRows(body)
        headers == IF rows = <<>> THEN <<>> ELSE rows[1]
        bad == {i \in 2..Len(rows) : Len(rows[i]) # Len(headers)}
    IN  IF bad # {}
        THEN [ok |-> FALSE, v |-> JNull]
        ELSE [ok |-> TRUE,
              v |-> JArr([i \in 1..Len(rows) |-> CsvObject(headers, rows[i])])]

\* the body of instruments after the text is read: Ok(array) or the csv error
CsvToJson(body) ==
    LET rows == CsvRows(body)
        headers == IF rows = <<>> THEN <<>> ELSE rows[1]
        bad == {i \in 2..Len(rows) : Len(rows[i]) # Len(headers)}
    IN  IF bad # {}
        THEN [ok |-> FALSE, v |-> JNull]
        ELSE [ok |-> TRUE,
              v |-> JArr([i \in 1..(IF rows = <<>> THEN 0 ELSE Len(rows) - 1) |->
                            CsvObject(headers, rows[i + 1])])]

(***************************************************************************)
(* Checksum provider.                                                      *)
(***************************************************************************)
\* the length in bytes of a SHA-256 digest
DigestLen == 32

HexLower == <<"0", "1", "2", "3", "4", "5", "6", "7", "8", "9",
              "a", "b", "c", "d", "e", "f">>
HexUpper == <<"0", "1", "2", "3", "4", "5", "6", "7", "8", "9",
              "A", "B", "C", "D", "E", "F">>

RECURSIVE Mix(_, _)
\* one byte of the stand-in digest: a polynomial fold of the input bytes
Mix(bytes, h) ==
    IF bytes = <<>> THEN h
    ELSE Mix(Tail(bytes), (h * 31 + Head(bytes)) % 65536)

\* Sha256::new / update / finalize.  The compression function of the sha2
\* crate is not reproduced: the stand-in keeps what the callers rely on, a
\* 32-byte value determined by the input bytes and their order.
Sha256(bytes) ==
    [i \in 1..DigestLen |-> (Mix(bytes, 27145 + i) \div (1 + (i % 3))) % 256]

\* hex::encode: two lowercase hexadecimal characters per byte
hex_encode(bytes) ==
    Concat([i \in 1..Len(bytes) |->
              <<HexLower[(bytes[i] \div 16) + 1], HexLower[(bytes[i] % 16) + 1]>>])

\* str::as_bytes
as_bytes(s) == [i \in 1..Len(s) |-> Byte(s[i])]

\* compute_checksum, native target: never fails, never suspends
compute_checksum(input) == hex_encode(Sha256(as_bytes(input)))

(***************************************************************************)
(* URL builder.                                                            *)
(***************************************************************************)
\* const URL (the non-test build)
URL == <<"h", "t", "t", "p", "s", ":", "/", "/", "a", "p", "i", ".",
         "k", "i", "t", "e", ".", "t", "r", "a", "d", "e">>

\* form_urlencoded::byte_serialize for one character
ByteSerialize(c) ==
    IF IsAlnum(c) \/ c \in {"*", "-", ".", "_"} THEN <<c>>
    ELSE IF c = " " THEN <<"+">>
    ELSE <<"%", HexUpper[(Byte(c) \div 16) + 1], HexUpper[(Byte(c) % 16) + 1]>>

FormEncode(s) == Concat([i \in 1..Len(s) |-> ByteSerialize(s[i])])

RECURSIVE ExtendPairs(_, _)
\* Serializer::extend_pairs: appends k=v to the query, "&" between pairs
ExtendPairs(query, pairs) ==
    IF pairs = <<>> THEN query
    ELSE ExtendPairs(query \o (IF query = <<>> THEN <<>> ELSE <<"&">>)
                           \o FormEncode(pairs[1][1]) \o <<"=">>
                           \o FormEncode(pairs[1][2]),
                     Tail(pairs))

\* Url::parse of origin/path text: the path ends at the first "?" or "#"
\* (the paths of the model hold neither dot segments nor characters the
\* parser would percent-encode)
UrlParse(text) ==
    LET rest == From(text, Len(URL) + 1)
        h == FindChar(rest, 1, "#")
        nofrag == IF h = 0 THEN rest ELSE SubSeq(rest, 1, h - 1)
        q == FindChar(nofrag, 1, "?")
    IN  [origin |-> SubSeq(text, 1, Len(URL)),
         path |-> IF q = 0 THEN nofrag ELSE SubSeq(nofrag, 1, q - 1),
         query |-> IF q = 0 THEN None ELSE Some(From(nofrag, q + 1)),
         fragment |-> IF h = 0 THEN None ELSE Some(From(rest, h + 1))]

\* a variant of build_url that does not strip the leading "/" of the path
\* before it puts its own "/" after the origin
build_url_keeps_slash(path, param) ==
    LET url == UrlParse(URL \o <<"/">> \o path)
    IN  IF param = None THEN url
        ELSE [url EXCEPT !.query =
                Some(ExtendPairs(IF url.query = None THEN <<>> ELSE url.query[1],
                                 param[1]))]

\* KiteConnect::build_url; param is an Option of a sequence of pairs
build_url(path, param) ==
    LET url == UrlParse(URL \o <<"/">> \o From(path, 2))
    IN  IF param = None THEN url
        ELSE [url EXCEPT !.query =
                Some(ExtendPairs(IF url.query = None THEN <<>> ELSE url.query[1],
                                 param[1]))]

\* the character of a byte
CharOf(n) == CHOOSE c \in DOMAIN ByteTable : ByteTable[c] = n

\* the value of an upper-case hex digit
HexValue(c) == (CHOOSE i \in 1..16 : HexUpper[i] = c) - 1

RECURSIVE FormDecode(_)
\* form_urlencoded decoding of one name or value: "+" is a space, %XY a byte
FormDecode(s) ==
    IF s = <<>> THEN <<>>
    ELSE IF s[1] = "+" THEN <<" ">> \o FormDecode(Tail(s))
    ELSE IF s[1] = "%" /\ Len(s) >= 3
         THEN <<CharOf(16 * HexValue(s[2]) + HexValue(s[3]))>>
                \o FormDecode(From(s, 4))
    ELSE <<s[1]>> \o FormDecode(Tail(s))

\* Url::query_pairs: the pieces between "&", each split at its first "="
QueryPairs(query) ==
    LET pieces == SelectSeq(SplitOn(query, "&"), LAMBDA x : x # <<>>)
    IN  [i \in 1..Len(pieces) |->
            LET e == FindChar(pieces[i], 1, "=")
            IN  IF e = 0 THEN <<FormDecode(pieces[i]), <<>> >>
                ELSE <<FormDecode(SubSeq(pieces[i], 1, e - 1)),
                       FormDecode(From(pieces[i], e + 1))>>]

\* Url::as_str
UrlStr(url) ==
    url.origin \o url.path
      \o (IF url.query = None THEN <<>> ELSE <<"?">> \o url.query[1])
      \o (IF url.fragment = None THEN <<>> ELSE <<"#">> \o url.fragment[1])

(***************************************************************************)
(* Request dispatcher: the part of send_request before send().await.       *)
(***************************************************************************)
\* HeaderValue::from_str: no control character except the tab
HeaderValueValid(s) ==
    \A i \in 1..Len(s) : s[i] = "\t" \/ (Byte(s[i]) >= 32 /\ Byte(s[i]) # 127)

\* HeaderMap::insert: replaces the values the name had
HeaderInsert(headers, name, value) ==
    SelectSeq(headers, LAMBDA h : h[1] # name) \o << <<name, value>> >>

\* a variant of AuthorizationValue that leaves the key out
AuthorizationValueNoKey(key, token) ==
    <<"t", "o", "k", "e", "n", " ">> \o token

\* format!("token {}:{}", api_key, access_token)
AuthorizationValue(key, token) ==
    <<"t", "o", "k", "e", "n", " ">> \o key \o <<":">> \o token

VersionValue == <<"3">>
UserAgentValue == <<"R", "u", "s", "t">>

\* a variant of RequestHeaders with key and token in each other's place
RequestHeadersSwapped(key, token) ==
    HeaderInsert(
        HeaderInsert(
            HeaderInsert(<<>>, "xkiteversion", VersionValue),
            "authorization", AuthorizationValue(token, key)),
        "user-agent", UserAgentValue)

\* the three headers of send_request (connect.rs lines 937-945)
RequestHeaders(key, token) ==
    HeaderInsert(
        HeaderInsert(
            HeaderInsert(<<>>, "xkiteversion", VersionValue),
            "authorization", AuthorizationValue(key, token)),
        "user-agent", UserAgentValue)

\* a variant of RequestBody that form-encodes every verb with a body
RequestBodyFormDelete(method, data) ==
    IF method = "GET" THEN [encoding |-> "none", data |-> None]
    ELSE [encoding |-> "form", data |-> data]

\* the body RequestBuilder attaches for a verb: none for get(), form(&data)
\* for post() and put(), json(&data) for delete().  The serialised text
\* follows the iteration order of a HashMap, which the program does not
\* fix, so the body is kept as its encoding and the map it encodes.
RequestBody(method, data) ==
    IF method = "GET" THEN [encoding |-> "none", data |-> None]
    ELSE IF method = "POST" THEN [encoding |-> "form", data |-> data]
    ELSE IF method = "DELETE" THEN [encoding |-> "json", data |-> data]
    ELSE [encoding |-> "form", data |-> data]

Methods == {"GET", "POST", "DELETE", "PUT"}

NoRequest == [method |-> "none", url |-> <<>>, headers |-> <<>>,
              body |-> [encoding |-> "none", data |-> None]]

\* send_request up to send(): the request put on the wire, an Err for an
\* unknown verb, or the panic of unwrap() on a header value that does not
\* parse
send_request(key, token, url, method, data) ==
    IF ~HeaderValueValid(AuthorizationValue(key, token))
    THEN [outcome |-> "panic", req |-> NoRequest]
    ELSE IF method \notin Methods
    THEN [outcome |-> "err", req |-> NoRequest]
    ELSE [outcome |-> "sent",
          req |-> [method |-> method, url |-> url,
                   headers |-> RequestHeaders(key, token),
                   body |-> RequestBody(method, data)]]

\* the values a header name has in a request
HeaderValues(req, name) ==
    {req.headers[i][2] : i \in {j \in 1..Len(req.headers) : req.headers[j][1] = name}}

HeaderCount(req, name) ==
    Cardinality({j \in 1..Len(req.headers) : req.headers[j][1] = name})

(***************************************************************************)
(* Results.  An anyhow::Error is its message, where it came from (an       *)
(* ad-hoc message, a reqwest error, a csv error) and its context.          *)
(***************************************************************************)
AnyhowMsg(text) == [t |-> "error", msg |-> text, src |-> "adhoc", context |-> None]
ReqwestError(kind) == [t |-> "error", msg |-> <<>>, src |-> kind, context |-> None]
WithContext(err, text) == [err EXCEPT !.context = Some(text)]

SerializationFailed ==
    <<"S", "e", "r", "i", "a", "l", "i", "z", "a", "t", "i", "o", "n", " ",
      "f", "a", "i", "l", "e", "d">>

\* StatusCode::is_success
is_success(status) == status >= 200 /\ status <= 299

\* a variant of raise_or_return_json that decodes the body before it
\* branches on the status, and so fails on an error body that is not JSON
raise_or_return_json_decode_first(status, body) ==
    LET p == ParseJson(body)
    IN  IF ~p.ok
        THEN [kind |-> "Err",
              val |-> WithContext(ReqwestError("reqwest_decode"), SerializationFailed)]
        ELSE IF is_success(status) THEN [kind |-> "Ok", val |-> p.v]
        ELSE [kind |-> "Err", val |-> AnyhowMsg(body)]

\* a variant of raise_or_return_json that reports an undecodable body the
\* way it reports a refusal, as the text of the body
raise_or_return_json_text_on_decode_failure(status, body) ==
    LET p == ParseJson(body)
    IN  IF is_success(status) /\ p.ok THEN [kind |-> "Ok", val |-> p.v]
        ELSE [kind |-> "Err", val |-> AnyhowMsg(body)]

\* raise_or_return_json once the body has been read
raise_or_return_json(status, body) ==
    IF is_success(status)
    THEN LET p == ParseJson(body)
         IN  IF p.ok THEN [kind |-> "Ok", val |-> p.v]
             ELSE [kind |-> "Err",
                   val |-> WithContext(ReqwestError("reqwest_decode"), SerializationFailed)]
    ELSE [kind |-> "Err", val |-> AnyhowMsg(body)]

(***************************************************************************)
(* Literals of the program.                                                *)
(***************************************************************************)
\* "/session/token"
P_session_token ==
    <<"/", "s", "e", "s", "s", "i", "o", "n", "/", "t", "o", "k", "e", "n">>
\* "/session/refresh_token"
P_session_refresh_token ==
    <<"/", "s", "e", "s", "s", "i", "o", "n", "/", "r", "e", "f", "r",
      "e", "s", "h", "_", "t", "o", "k", "e", "n">>
\* "/user/margins"
P_user_margins ==
    <<"/", "u", "s", "e", "r", "/", "m", "a", "r", "g", "i", "n", "s">>
\* "/user/profile"
P_user_profile ==
    <<"/", "u", "s", "e", "r", "/", "p", "r", "o", "f", "i", "l", "e">>
\* "/portfolio/holdings"
P_portfolio_holdings ==
    <<"/", "p", "o", "r", "t", "f", "o", "l", "i", "o", "/", "h", "o",
      "l", "d", "i", "n", "g", "s">>
\* "/portfolio/positions"
P_portfolio_positions ==
    <<"/", "p", "o", "r", "t", "f", "o", "l", "i", "o", "/", "p", "o",
      "s", "i", "t", "i", "o", "n", "s">>
\* "/orders"
P_orders ==
    <<"/", "o", "r", "d", "e", "r", "s">>
\* "/trades"
P_trades ==
    <<"/", "t", "r", "a", "d", "e", "s">>
\* "/mf/orders"
P_mf_orders ==
    <<"/", "m", "f", "/", "o", "r", "d", "e", "r", "s">>
\* "/instruments/trigger_range"
P_trigger_range ==
    <<"/", "i", "n", "s", "t", "r", "u", "m", "e", "n", "t", "s", "/",
      "t", "r", "i", "g", "g", "e", "r", "_", "r", "a", "n", "g", "e">>
\* "/instruments"
P_instruments ==
    <<"/", "i", "n", "s", "t", "r", "u", "m", "e", "n", "t", "s">>
\* "/mf/instruments"
P_mf_instruments ==
    <<"/", "m", "f", "/", "i", "n", "s", "t", "r", "u", "m", "e", "n",
      "t", "s">>
\* "order_id"
K_order_id ==
    <<"o", "r", "d", "e", "r", "_", "i", "d">>
\* "transaction_type"
K_transaction_type ==
    <<"t", "r", "a", "n", "s", "a", "c", "t", "i", "o", "n", "_", "t",
      "y", "p", "e">>
\* "instruments"
K_instruments ==
    <<"i", "n", "s", "t", "r", "u", "m", "e", "n", "t", "s">>
\* "data"
W_data ==
    <<"d", "a", "t", "a">>
\* "access_token"
W_access_token ==
    <<"a", "c", "c", "e", "s", "s", "_", "t", "o", "k", "e", "n">>
\* "No window object"
NoWindowObject ==
    <<"N", "o", " ", "w", "i", "n", "d", "o", "w", " ", "o", "b", "j",
      "e", "c", "t">>
\* "No crypto object"
NoCryptoObject ==
    <<"N", "o", " ", "c", "r", "y", "p", "t", "o", " ", "o", "b", "j",
      "e", "c", "t">>
\* "Failed to create digest"
FailedToCreateDigest ==
    <<"F", "a", "i", "l", "e", "d", " ", "t", "o", " ", "c", "r", "e",
      "a", "t", "e", " ", "d", "i", "g", "e", "s", "t">>
\* "Failed to compute hash"
FailedToComputeHash ==
    <<"F", "a", "i", "l", "e", "d", " ", "t", "o", " ", "c", "o", "m",
      "p", "u", "t", "e", " ", "h", "a", "s", "h">>
\* "Unknown method!"
UnknownMethod ==
    <<"U", "n", "k", "n", "o", "w", "n", " ", "m", "e", "t", "h", "o",
      "d", "!">>

(***************************************************************************)
(* Inputs: what callers pass and what the server and the host answer.      *)
(***************************************************************************)
ApiKeys == {<<"k">>, <<"K", "2">>}

\* candidate access tokens of a caller: a plain one, the empty one of
\* new(key, ""), one that is no valid header value, another plain one
TokenList == << <<"t", "0">>, <<>>, <<"x", "\n">>, <<"o", "l", "d">> >>
Tokens == {TokenList[i] : i \in 1..NumTokens}

RequestTokens == {<<"r">>, <<"r", "q">>}
ApiSecrets == {<<"Z">>, <<"S", "2">>}
Hooks == {"mock_hook", "handle_session_expiry"}
Targets == {"native", "wasm32"}

Segments == {<<"e", "q">>}
Exchanges == {<<"N", "S", "E">>}
Varieties == {<<"c", "o">>}
OrderIds == {<<"7">>}
TransactionTypes == {<<"B", "U", "Y">>}
Instruments == {<<"N", ":", "I">>, <<"B", ":", "R">>}
InstrumentLists == UNION {[1..n -> Instruments] : n \in 0..MaxInstruments}
OptionalTexts == {None, Some(<<"1">>)}

\* paths and query pairs handed to build_url: no pairs, an empty list, the
\* pair of the test, a name twice, and texts the query has to encode
UrlPaths == {<<"/", "m", "y", "-", "h">>, <<"/", "o", "/", "7">>}
UrlParams ==
    {None,
     Some(<<>>),
     Some(<< << <<"o", "n", "e">>, <<"1">> >> >>),
     Some(<< << <<"k">>, <<"2">> >>, << <<"k">>, <<"1">> >> >>),
     Some(<< << <<"q">>, <<"a", " ", "b">> >>, << <<"p">>, <<"x", "&", "y", "=", "z">> >> >>),
     Some(<< << <<"i">>, <<"N", ":", "I">> >>, << <<"j">>, <<"1", "+", "1">> >> >>)}

\* tokens the server hands out
ServerTokenA == <<"n", "e", "w", "A">>
ServerTokenB == <<"n", "e", "w", "B">>

Quoted(w) == <<"\"">> \o w \o <<"\"">>

\* {"data":{"access_token":"newA"}}
BodySession ==
    <<"{">> \o Quoted(W_data) \o <<":", "{">> \o Quoted(W_access_token)
        \o <<":">> \o Quoted(ServerTokenA) \o <<"}", "}">>
\* {"access_token":"newB"}
BodyRenew ==
    <<"{">> \o Quoted(W_access_token) \o <<":">> \o Quoted(ServerTokenB) \o <<"}">>
\* {"data":{"access_token":"newA"},"access_token":"newB"}
BodyBoth ==
    <<"{">> \o Quoted(W_data) \o <<":", "{">> \o Quoted(W_access_token)
        \o <<":">> \o Quoted(ServerTokenA) \o <<"}", ",">>
        \o Quoted(W_access_token) \o <<":">> \o Quoted(ServerTokenB) \o <<"}">>
\* {"data":{"access_token":7}}
BodyNoString ==
    <<"{">> \o Quoted(W_data) \o <<":", "{">> \o Quoted(W_access_token)
        \o <<":", "7", "}", "}">>
\* invalid api key
BodyErrorText ==
    <<"i", "n", "v", "a", "l", "i", "d", " ", "a", "p", "i", " ", "k",
      "e", "y">>
\* a,b / 1,2 / 3,4
BodyCsv ==
    <<"a", ",", "b", "\n", "1", ",", "2", "\n", "3", ",", "4", "\n">>
\* a,b / 1
BodyCsvShortRow ==
    <<"a", ",", "b", "\n", "1", "\n">>

\* a,b (a header row and nothing else)
BodyCsvHeaderOnly == <<"a", ",", "b", "\n">>
\* a,a / 1,2 (the same column name twice)
BodyCsvSameName == <<"a", ",", "a", "\n", "1", ",", "2", "\n">>

\* the tables behind the CSV bodies: the header row and the data rows, all
\* of as many fields as the header
Tables ==
    { [h |-> << <<"a">>, <<"b">> >>,
       rows |-> << << <<"1">>, <<"2">> >>, << <<"3">>, <<"4">> >> >>],
      [h |-> << <<"a">>, <<"b">> >>, rows |-> << >>],
      [h |-> << <<"a">>, <<"a">> >>, rows |-> << << <<"1">>, <<"2">> >> >>] }

RECURSIVE Join(_, _)
\* the texts of a sequence with sep between them
Join(ts, sep) ==
    IF ts = <<>> THEN <<>>
    ELSE IF Len(ts) = 1 THEN ts[1]
    ELSE ts[1] \o <<sep>> \o Join(Tail(ts), sep)

\* the CSV text a server writes for a table: one line per row
CsvText(tb) ==
    Concat([i \in 1..(Len(tb.rows) + 1) |->
              Join(IF i = 1 THEN tb.h ELSE tb.rows[i - 1], ",") \o <<"\n">>])

\* Serialization failed (an error body that reads like the decode context)
BodySerializationFailed == SerializationFailed

Bodies == {BodySession, BodyRenew, BodyBoth, BodyNoString, BodyErrorText,
           BodyCsv, BodyCsvShortRow, BodyCsvHeaderOnly, BodyCsvSameName,
           BodySerializationFailed, <<>>}

Statuses == {200, 201, 403}

\* what the host of the wasm32 build answers to the checksum's calls
HostCrypto == {"no_window", "no_crypto", "no_digest", "pending"}

(***************************************************************************)
(* State.                                                                  *)
(***************************************************************************)
VARIABLES
    target,                 \* the build target (cfg(target_arch))
    api_key,                \* KiteConnect.api_key
    access_token,           \* KiteConnect.access_token
    session_expiry_hook,    \* KiteConnect.session_expiry_hook, an Option
    call,                   \* the current or last call: method, arguments,
                            \* and the suspension point its future is at
    wire,                   \* the requests the current or last call sent
    resp,                   \* the response received so far
    ret,                    \* what the last call returned
    pre,                    \* the instance's fields when that call began
    other,                  \* a second instance made by clone(), if any
    hook_calls,             \* how often the client has called the hook
    prev                    \* the call before the last one, when the caller
                            \* keeps it to compare

vars == <<target, api_key, access_token, session_expiry_hook,
          call, wire, resp, ret, pre, other, hook_calls, prev>>

fields == <<api_key, access_token, session_expiry_hook>>

Creds == [api_key |-> api_key, access_token |-> access_token,
          session_expiry_hook |-> session_expiry_hook]

Idle == [op |-> "none", pc |-> "idle", arg |-> <<>>, secret |-> <<>>]
NoResp == [status |-> 0, body |-> None]
NoRet == [op |-> "none", kind |-> "none", val |-> JNull]

Returned(op, kind, val) == [op |-> op, kind |-> kind, val |-> val]

\* no future of the instance is alive and the caller holds no result it has
\* not yet taken: the next method can be called
Ready == call.pc = "idle" /\ ret.kind = "none"

\* no earlier call kept
NoPrev == [live |-> FALSE]

\* no second instance
NoClone == [live |-> FALSE]

\* KiteConnect::new(api_key, access_token), for either build target
Init ==
    /\ other = NoClone
    /\ hook_calls = 0
    /\ prev = NoPrev
    /\ target \in Targets
    /\ api_key \in ApiKeys
    /\ access_token \in Tokens
    /\ session_expiry_hook = None
    /\ call = Idle
    /\ wire = <<>>
    /\ resp = NoResp
    /\ ret = NoRet
    /\ pre = [api_key |-> api_key, access_token |-> access_token,
              session_expiry_hook |-> None]

(***************************************************************************)
(* Synchronous methods.  They take &mut self, so none runs while a future  *)
(* borrowing the instance is alive.                                        *)
(***************************************************************************)
\* a variant of StoredToken that keeps the stored token when handed the
\* empty string
StoredTokenUnlessEmpty(current, x) == IF x = <<>> THEN current ELSE x

\* self.access_token = access_token.to_string(): the field after the
\* assignment, given what it held and the argument
StoredToken(current, x) == x

\* a variant of LoginUrlText that formats the other credential
LoginUrlTextOfToken(key, token) ==
    <<"h", "t", "t", "p", "s", ":", "/", "/", "k", "i", "t", "e", ".", "t",
      "r", "a", "d", "e", "/", "c", "o", "n", "n", "e", "c", "t", "/", "l",
      "o", "g", "i", "n", "?", "a", "p", "i", "_", "k", "e", "y", "=">>
        \o token \o <<"&", "v", "3">>

\* format!("https://kite.trade/connect/login?api_key={}&v3", self.api_key),
\* given the two credentials of self
LoginUrlText(key, token) ==
    <<"h", "t", "t", "p", "s", ":", "/", "/", "k", "i", "t", "e", ".", "t",
      "r", "a", "d", "e", "/", "c", "o", "n", "n", "e", "c", "t", "/", "l",
      "o", "g", "i", "n", "?", "a", "p", "i", "_", "k", "e", "y", "=">>
        \o key \o <<"&", "v", "3">>

\* set_access_token(access_token)
set_access_token ==
    /\ Ready
    /\ \E t \in Tokens :
        /\ access_token' = StoredToken(access_token, t)
        /\ call' = [op |-> "set_access_token", pc |-> "idle", arg |-> t,
                    secret |-> <<>>]
        /\ ret' = Returned("set_access_token", "Ok", JNull)
    /\ pre' = Creds
    /\ wire' = <<>>
    /\ resp' = NoResp
    /\ UNCHANGED <<prev, hook_calls, other, target, api_key, session_expiry_hook>>

\* access_token(): the stored token
get_access_token ==
    /\ Ready
    /\ call' = [op |-> "access_token", pc |-> "idle", arg |-> <<>>,
                secret |-> <<>>]
    /\ ret' = Returned("access_token", "Ok", JStr(access_token))
    /\ pre' = Creds
    /\ wire' = <<>>
    /\ resp' = NoResp
    /\ UNCHANGED <<prev, hook_calls, other, target, api_key, access_token,
                   session_expiry_hook>>

\* login_url()
login_url ==
    /\ Ready
    /\ call' = [op |-> "login_url", pc |-> "idle", arg |-> <<>>,
                secret |-> <<>>]
    /\ ret' = Returned("login_url", "Ok", JStr(LoginUrlText(api_key, access_token)))
    /\ pre' = Creds
    /\ wire' = <<>>
    /\ resp' = NoResp
    /\ UNCHANGED <<prev, hook_calls, other, target, api_key, access_token,
                   session_expiry_hook>>

\* a variant of StoredHook that keeps a hook that is already set
StoredHookFirstWins(current, method) ==
    IF current = None THEN Some(method) ELSE current

\* self.session_expiry_hook = Some(method): the field after the assignment,
\* given what it held and the argument
StoredHook(current, method) == Some(method)

\* set_session_expiry_hook(method)
set_session_expiry_hook ==
    /\ Ready
    /\ \E h \in Hooks :
        /\ session_expiry_hook' = StoredHook(session_expiry_hook, h)
        /\ call' = [op |-> "set_session_expiry_hook", pc |-> "idle",
                    arg |-> h, secret |-> <<>>]
        /\ ret' = Returned("set_session_expiry_hook", "Ok", JNull)
    /\ pre' = Creds
    /\ wire' = <<>>
    /\ resp' = NoResp
    /\ UNCHANGED <<prev, hook_calls, other, target, api_key, access_token>>

\* session_expiry_hook(): the stored Option, copied out
get_session_expiry_hook ==
    /\ Ready
    /\ call' = [op |-> "session_expiry_hook", pc |-> "idle", arg |-> <<>>,
                secret |-> <<>>]
    /\ ret' = Returned("session_expiry_hook", "Ok",
                       [t |-> "option", v |-> session_expiry_hook])
    /\ pre' = Creds
    /\ wire' = <<>>
    /\ resp' = NoResp
    /\ UNCHANGED <<prev, hook_calls, other, target, api_key, access_token,
                   session_expiry_hook>>

\* self.build_url(path, param); the arguments are kept with the call
call_build_url ==
    /\ Ready
    /\ \E path \in UrlPaths, param \in UrlParams :
        /\ call' = [op |-> "build_url", pc |-> "idle",
                    arg |-> [path |-> path, param |-> param], secret |-> <<>>]
        /\ ret' = Returned("build_url", "Ok", build_url(path, param))
    /\ pre' = Creds
    /\ wire' = <<>>
    /\ resp' = NoResp
    /\ UNCHANGED <<prev, hook_calls, other, target, api_key, access_token,
                   session_expiry_hook>>

(***************************************************************************)
(* A call of an asynchronous method, up to its first suspension.           *)
(***************************************************************************)
\* self.send_request(url, method, data) up to send().await
Dispatch(op, method, url, data, arg, secret) ==
    LET r == send_request(api_key, access_token, url, method, data)
    IN  /\ resp' = NoResp
        /\ IF r.outcome = "sent"
           THEN /\ wire' = <<r.req>>
                /\ call' = [op |-> op, pc |-> "await_send", arg |-> arg,
                            secret |-> secret]
                /\ ret' = NoRet
           ELSE /\ wire' = <<>>
                /\ call' = [op |-> op, pc |-> "idle", arg |-> arg,
                            secret |-> secret]
                /\ ret' = IF r.outcome = "panic"
                          THEN Returned(op, "Panic", JNull)
                          ELSE Returned(op, "Err", AnyhowMsg(UnknownMethod))

\* a method of &self that builds a request and sends it
Request(op, method, url, data) ==
    /\ Ready
    /\ pre' = Creds
    /\ Dispatch(op, method, url, data, <<>>, <<>>)
    /\ UNCHANGED <<prev, hook_calls, other, target, api_key, access_token, session_expiry_hook>>

\* the data and the request of generate_session / renew_access_token once
\* the checksum is known (connect.rs lines 388-395 and 426-433)
SessionDispatch(op, arg, secret, checksum) ==
    IF op = "generate_session"
    THEN Dispatch(op, "POST", build_url(P_session_token, None),
                  Some(("api_key" :> api_key) @@ ("request_token" :> arg)
                         @@ ("checksum" :> checksum)),
                  arg, secret)
    ELSE Dispatch(op, "POST", build_url(P_session_refresh_token, None),
                  Some(("api_key" :> api_key) @@ ("access_token" :> arg)
                         @@ ("checksum" :> checksum)),
                  arg, secret)

\* a variant of ChecksumInput that puts the secret first
ChecksumInputSecretFirst(key, arg, secret) == secret \o key \o arg

\* a variant of ChecksumInput that sets the three parts apart with ":"
ChecksumInputDelimited(key, arg, secret) ==
    key \o <<":">> \o arg \o <<":">> \o secret

\* format!("{}{}{}", self.api_key, token, api_secret)
ChecksumInput(key, arg, secret) == key \o arg \o secret

\* a variant of wasm_checksum_start that goes on with an empty checksum
\* when the host has no crypto object
wasm_checksum_start_falls_back(host, input) ==
    IF host = "no_window" THEN [kind |-> "err", val |-> AnyhowMsg(NoWindowObject)]
    ELSE IF host = "no_crypto" THEN [kind |-> "ok", val |-> <<>>]
    ELSE IF host = "no_digest"
    THEN [kind |-> "err", val |-> AnyhowMsg(FailedToCreateDigest)]
    ELSE [kind |-> "pending", val |-> JNull]

\* the wasm32 compute_checksum up to its await (connect.rs lines 311-318):
\* an error when the host has no window, no crypto object or refuses the
\* digest, else the pending promise of the digest
wasm_checksum_start(host, input) ==
    IF host = "no_window" THEN [kind |-> "err", val |-> AnyhowMsg(NoWindowObject)]
    ELSE IF host = "no_crypto"
    THEN [kind |-> "err", val |-> AnyhowMsg(NoCryptoObject)]
    ELSE IF host = "no_digest"
    THEN [kind |-> "err", val |-> AnyhowMsg(FailedToCreateDigest)]
    ELSE [kind |-> "pending", val |-> JNull]

\* SubtleCrypto.digest("SHA-256", data) of the host, when its promise
\* resolves: the host's SHA-256 of the bytes handed over
SubtleDigest(data) == Sha256(data)

\* a variant of wasm_checksum_finish that writes the digest in uppercase
wasm_checksum_finish_uppercase(digest_vec) ==
    Concat([i \in 1..Len(digest_vec) |->
              <<HexUpper[(digest_vec[i] \div 16) + 1],
                HexUpper[(digest_vec[i] % 16) + 1]>>])

\* the wasm32 compute_checksum after its await (connect.rs lines 324-326):
\* the bytes of the digest the host returned, hex-encoded
wasm_checksum_finish(digest_vec) == hex_encode(digest_vec)

\* the start of generate_session / renew_access_token: the checksum, which
\* on wasm32 asks the host and suspends on its promise
SessionCall(op, arg, secret) ==
    /\ Ready
    /\ pre' = Creds
    /\ IF target = "native"
       THEN SessionDispatch(op, arg, secret,
                            compute_checksum(ChecksumInput(api_key, arg, secret)))
       ELSE \E host \in HostCrypto :
              LET c == wasm_checksum_start(host, ChecksumInput(api_key, arg, secret))
              IN  IF c.kind = "ok"
                  THEN SessionDispatch(op, arg, secret, c.val)
                  ELSE /\ wire' = <<>>
                       /\ resp' = NoResp
                       /\ IF c.kind = "pending"
                          THEN /\ call' = [op |-> op, pc |-> "await_digest",
                                           arg |-> arg, secret |-> secret]
                               /\ ret' = NoRet
                          ELSE /\ call' = [op |-> op, pc |-> "idle", arg |-> arg,
                                           secret |-> secret]
                               /\ ret' = Returned(op, "Err", c.val)
    /\ UNCHANGED <<prev, hook_calls, other, target, api_key, access_token, session_expiry_hook>>

generate_session ==
    \E request_token \in RequestTokens, api_secret \in ApiSecrets :
        SessionCall("generate_session", request_token, api_secret)

renew_access_token ==
    \E token \in Tokens, api_secret \in ApiSecrets :
        SessionCall("renew_access_token", token, api_secret)

invalidate_access_token ==
    \E token \in Tokens :
        Request("invalidate_access_token", "DELETE",
                build_url(P_session_token, None),
                Some("access_token" :> token))

invalidate_refresh_token ==
    \E token \in Tokens :
        Request("invalidate_refresh_token", "DELETE",
                build_url(P_session_refresh_token, None),
                Some("refresh_token" :> token))

(***************************************************************************)
(* The endpoint methods.                                                   *)
(***************************************************************************)
\* params.insert(key, value) when the optional argument is present
InsertSome(key, opt) == IF opt = None THEN <<>> ELSE (key :> opt[1])

margins ==
    \E segment \in {None} \cup {Some(s) : s \in Segments} :
        Request("margins", "GET",
                IF segment # None
                THEN build_url(P_user_margins \o <<"/">> \o segment[1], None)
                ELSE build_url(P_user_margins, None),
                None)

profile == Request("profile", "GET", build_url(P_user_profile, None), None)

holdings == Request("holdings", "GET", build_url(P_portfolio_holdings, None), None)

positions == Request("positions", "GET", build_url(P_portfolio_positions, None), None)

\* the optional arguments of place_order: none, two, or all of them
PlaceOrderOptionals ==
    {[k \in {"product", "order_type", "price", "validity", "disclosed_quantity",
             "trigger_price", "squareoff", "stoploss", "trailing_stoploss", "tag"}
        |-> IF k \in present THEN Some(<<"1">>) ELSE None] :
     present \in {{}, {"product", "tag"},
                  {"product", "order_type", "price", "validity",
                   "disclosed_quantity", "trigger_price", "squareoff",
                   "stoploss", "trailing_stoploss", "tag"}}}

place_order ==
    \E variety \in Varieties, exchange \in Exchanges, o \in PlaceOrderOptionals :
        Request("place_order", "POST",
                build_url(P_orders \o <<"/">> \o variety, None),
                Some(("variety" :> variety) @@ ("exchange" :> exchange)
                       @@ ("tradingsymbol" :> <<"I">>)
                       @@ ("transaction_type" :> <<"B", "U", "Y">>)
                       @@ ("quantity" :> <<"1">>)
                       @@ InsertSome("product", o.product)
                       @@ InsertSome("order_type", o.order_type)
                       @@ InsertSome("price", o.price)
                       @@ InsertSome("validity", o.validity)
                       @@ InsertSome("disclosed_quantity", o.disclosed_quantity)
                       @@ InsertSome("trigger_price", o.trigger_price)
                       @@ InsertSome("squareoff", o.squareoff)
                       @@ InsertSome("stoploss", o.stoploss)
                       @@ InsertSome("trailing_stoploss", o.trailing_stoploss)
                       @@ InsertSome("tag", o.tag)))

modify_order ==
    \E order_id \in OrderIds, variety \in Varieties, quantity \in OptionalTexts :
        Request("modify_order", "PUT",
                build_url(P_orders \o <<"/">> \o variety \o <<"/">> \o order_id, None),
                Some(("order_id" :> order_id) @@ ("variety" :> variety)
                       @@ InsertSome("quantity", quantity)
                       @@ InsertSome("price", None)
                       @@ InsertSome("order_type", None)
                       @@ InsertSome("validity", None)
                       @@ InsertSome("disclosed_quantity", None)
                       @@ InsertSome("trigger_price", None)
                       @@ InsertSome("parent_order_id", None)))

\* cancel_order, also the whole of exit_order
CancelOrder(op) ==
    \E order_id \in OrderIds, variety \in Varieties, parent_order_id \in OptionalTexts :
        Request(op, "DELETE",
                build_url(P_orders \o <<"/">> \o variety \o <<"/">> \o order_id, None),
                Some(("order_id" :> order_id) @@ ("variety" :> variety)
                       @@ InsertSome("parent_order_id", parent_order_id)))

cancel_order == CancelOrder("cancel_order")

exit_order == CancelOrder("exit_order")

orders == Request("orders", "GET", build_url(P_orders, None), None)

order_history ==
    \E order_id \in OrderIds :
        Request("order_history", "GET",
                build_url(P_orders, Some(<< <<K_order_id, order_id>> >>)), None)

trades == Request("trades", "GET", build_url(P_trades, None), None)

order_trades ==
    \E order_id \in OrderIds :
        Request("order_trades", "GET",
                build_url(P_orders \o <<"/">> \o order_id \o P_trades, None), None)

convert_position ==
    \E exchange \in Exchanges :
        Request("convert_position", "PUT",
                build_url(P_portfolio_positions, None),
                Some(("exchange" :> exchange) @@ ("tradingsymbol" :> <<"I">>)
                       @@ ("transaction_type" :> <<"B", "U", "Y">>)
                       @@ ("position_type" :> <<"d">>)
                       @@ ("quantity" :> <<"1">>)
                       @@ ("old_product" :> <<"M">>)
                       @@ ("new_product" :> <<"C">>)))

mf_orders ==
    \E order_id \in {None} \cup {Some(i) : i \in OrderIds} :
        Request("mf_orders", "GET",
                IF order_id # None
                THEN build_url(P_mf_orders \o <<"/">> \o order_id[1], None)
                ELSE build_url(P_mf_orders, None),
                None)

\* the params of trigger_range: transaction_type, then one instruments
\* pair per instrument in the order given (connect.rs lines 828-833)
TriggerRangeParams(transaction_type, list) ==
    << <<K_transaction_type, transaction_type>> >>
        \o [i \in 1..Len(list) |-> <<K_instruments, list[i]>>]

trigger_range ==
    \E transaction_type \in TransactionTypes, list \in InstrumentLists :
        Request("trigger_range", "GET",
                build_url(P_trigger_range,
                          Some(TriggerRangeParams(transaction_type, list))),
                None)

instruments ==
    \E exchange \in {None} \cup {Some(e) : e \in Exchanges} :
        Request("instruments", "GET",
                IF exchange # None
                THEN build_url(P_instruments \o <<"/">> \o exchange[1], None)
                ELSE build_url(P_instruments, None),
                None)

mf_instruments ==
    Request("mf_instruments", "GET", build_url(P_mf_instruments, None), None)

\* the methods that hand their response to raise_or_return_json
JsonOps == {"margins", "profile", "holdings", "positions", "place_order",
            "modify_order", "cancel_order", "exit_order", "orders",
            "order_history", "trades", "order_trades", "convert_position",
            "mf_orders", "trigger_range"}
SessionOps == {"generate_session", "renew_access_token"}
InvalidateOps == {"invalidate_access_token", "invalidate_refresh_token"}
TabularOps == {"instruments", "mf_instruments"}

(***************************************************************************)
(* What a method does with the response once its body has been read.       *)
(* install is the token the method stores, if it stores one.               *)
(***************************************************************************)
Outcome(kind, val, install) == [kind |-> kind, val |-> val, install |-> install]

\* a variant of SessionTokenField that reads the top-level field
SessionTokenFieldTopLevel(jsn) == JIndex(jsn, W_access_token)

\* the access-token field generate_session reads: jsn["data"]["access_token"]
SessionTokenField(jsn) == JIndex(JIndex(jsn, W_data), W_access_token)

\* the access-token field renew_access_token reads: jsn["access_token"]
RenewTokenField(jsn) == JIndex(jsn, W_access_token)

\* a variant of SessionFinish that decodes and stores the token before it
\* looks at the status
SessionFinishStoresFirst(op, status, body) ==
    LET p == ParseJson(body)
        tok == IF p.ok
               THEN as_str(IF op = "generate_session"
                           THEN JIndex(JIndex(p.v, W_data), W_access_token)
                           ELSE JIndex(p.v, W_access_token))
               ELSE None
    IN  IF is_success(status)
        THEN IF ~p.ok THEN Outcome("Err", ReqwestError("reqwest_decode"), None)
             ELSE IF tok = None THEN Outcome("Panic", JNull, None)
             ELSE Outcome("Ok", p.v, tok)
        ELSE Outcome("Err", AnyhowMsg(body), tok)

\* a variant of SessionFinish that forgets the stored token when the server
\* refuses the handshake
SessionFinishClearsOnError(op, status, body) ==
    LET p == ParseJson(body)
        tok == IF p.ok
               THEN as_str(IF op = "generate_session"
                           THEN JIndex(JIndex(p.v, W_data), W_access_token)
                           ELSE JIndex(p.v, W_access_token))
               ELSE None
    IN  IF is_success(status)
        THEN IF ~p.ok THEN Outcome("Err", ReqwestError("reqwest_decode"), None)
             ELSE IF tok = None THEN Outcome("Panic", JNull, None)
             ELSE Outcome("Ok", p.v, tok)
        ELSE Outcome("Err", AnyhowMsg(body), Some(<<>>))

\* a variant of SessionFinish that stores the text of a 2xx body as the
\* token before it decodes it
SessionFinishStoresUndecoded(op, status, body) ==
    LET p == ParseJson(body)
        tok == IF p.ok
               THEN as_str(IF op = "generate_session"
                           THEN JIndex(JIndex(p.v, W_data), W_access_token)
                           ELSE JIndex(p.v, W_access_token))
               ELSE None
    IN  IF is_success(status)
        THEN IF ~p.ok
             THEN Outcome("Err", ReqwestError("reqwest_decode"), Some(body))
             ELSE IF tok = None THEN Outcome("Panic", JNull, Some(body))
             ELSE Outcome("Ok", p.v, tok)
        ELSE Outcome("Err", AnyhowMsg(body), None)

\* generate_session / renew_access_token after send_request returned the
\* response (connect.rs lines 397-404 and 435-442)
SessionFinish(op, status, body) ==
    IF is_success(status)
    THEN LET p == ParseJson(body)
         IN  IF ~p.ok
             THEN Outcome("Err", ReqwestError("reqwest_decode"), None)
             ELSE LET tok == as_str(IF op = "generate_session"
                                    THEN SessionTokenField(p.v)
                                    ELSE RenewTokenField(p.v))
                  IN  IF tok = None
                      THEN Outcome("Panic", JNull, None)
                      ELSE Outcome("Ok", p.v, tok)
    ELSE Outcome("Err", AnyhowMsg(body), None)

\* instruments / mf_instruments after the body text is read: the status is
\* not looked at; the native build parses the text as CSV, the wasm32 build
\* returns it as a string
TabularFinish(tgt, status, body) ==
    IF tgt = "native"
    THEN LET c == CsvToJson(body)
         IN  IF c.ok THEN Outcome("Ok", c.v, None)
             ELSE Outcome("Err", ReqwestError("csv"), None)
    ELSE Outcome("Ok", JStr(body), None)

\* a variant of InvalidateFinish that clears the stored token once the
\* server has confirmed
InvalidateFinishClears(status) ==
    Outcome("Ok", [t |-> "response", status |-> status],
            IF is_success(status) THEN Some(<<>>) ELSE None)

\* a variant of InvalidateFinish that passes the response through the
\* status branch and reports a refusal as an error
InvalidateFinishThroughStatusBranch(status) ==
    IF is_success(status)
    THEN Outcome("Ok", [t |-> "response", status |-> status], None)
    ELSE Outcome("Err", AnyhowMsg(<<>>), None)

\* invalidate_access_token / invalidate_refresh_token: the response is
\* returned as it is, whatever its status; nothing is stored
InvalidateFinish(status) ==
    Outcome("Ok", [t |-> "response", status |-> status], None)

\* a variant of HookInvocations that calls the hook, when one is set, on a
\* refused request of a method that looks at the status
HookInvocationsOnRefusal(op, status, hook) ==
    IF op \notin TabularOps /\ ~is_success(status) /\ hook # None
    THEN 1 ELSE 0

\* how often a method calls self.session_expiry_hook once it has the
\* response: the error branches build the error and return (connect.rs
\* lines 199-201, 401-403, 439-441), and nothing else reads the field but
\* its getter
HookInvocations(op, status, hook) == 0

\* a variant of Finish that forgets the stored token when a JSON-mode
\* request is refused
FinishForgetsTokenOnRefusal(op, tgt, status, body) ==
    IF op \in SessionOps THEN SessionFinish(op, status, body)
    ELSE IF op \in TabularOps THEN TabularFinish(tgt, status, body)
    ELSE LET r == raise_or_return_json(status, body)
         IN  Outcome(r.kind, r.val,
                     IF is_success(status) THEN None ELSE Some(<<>>))

Finish(op, tgt, status, body) ==
    IF op \in SessionOps THEN SessionFinish(op, status, body)
    ELSE IF op \in TabularOps THEN TabularFinish(tgt, status, body)
    ELSE LET r == raise_or_return_json(status, body)
         IN  Outcome(r.kind, r.val, None)

(***************************************************************************)
(* The steps of a call after its first suspension.                         *)
(***************************************************************************)
\* wasm32: the host's digest promise settles; on success the method goes on
\* to build and send its request
DigestResolve ==
    /\ call.pc = "await_digest"
    /\ \E ok \in BOOLEAN :
        IF ok
        THEN SessionDispatch(call.op, call.arg, call.secret,
                wasm_checksum_finish(SubtleDigest(as_bytes(
                    ChecksumInput(api_key, call.arg, call.secret)))))
        ELSE /\ call' = [call EXCEPT !.pc = "idle"]
             /\ ret' = Returned(call.op, "Err", AnyhowMsg(FailedToComputeHash))
             /\ UNCHANGED <<wire, resp>>
    /\ UNCHANGED <<prev, hook_calls, other, target, api_key, access_token, session_expiry_hook, pre>>

\* send().await fails in transport: the method returns the error
SendFails ==
    /\ call.pc = "await_send"
    /\ call' = [call EXCEPT !.pc = "idle"]
    /\ ret' = Returned(call.op, "Err", ReqwestError("reqwest_request"))
    /\ UNCHANGED <<prev, hook_calls, other, target, api_key, access_token, session_expiry_hook,
                   wire, resp, pre>>

\* send().await yields a response: invalidate_* return it as it is, every
\* other method goes on to read the body
SendResolves ==
    /\ call.pc = "await_send"
    /\ \E status \in Statuses :
        /\ resp' = [status |-> status, body |-> None]
        /\ IF call.op \in InvalidateOps
           THEN LET out == InvalidateFinish(status)
                IN  /\ call' = [call EXCEPT !.pc = "idle"]
                    /\ ret' = Returned(call.op, out.kind, out.val)
                    /\ access_token' = IF out.install = None THEN access_token
                                       ELSE out.install[1]
           ELSE /\ call' = [call EXCEPT !.pc = "await_body"]
                /\ ret' = NoRet
                /\ UNCHANGED access_token
    /\ UNCHANGED <<prev, hook_calls, other, target, api_key, session_expiry_hook, wire, pre>>

\* json().await / text().await fails while the body is read
BodyFails ==
    /\ call.pc = "await_body"
    /\ call' = [call EXCEPT !.pc = "idle"]
    /\ ret' = Returned(call.op, "Err",
                IF call.op \in JsonOps /\ is_success(resp.status)
                THEN WithContext(ReqwestError("reqwest_body"), SerializationFailed)
                ELSE ReqwestError("reqwest_body"))
    /\ UNCHANGED <<prev, hook_calls, other, target, api_key, access_token, session_expiry_hook,
                   wire, resp, pre>>

\* the body arrives and the method runs to its end
BodyArrives ==
    /\ call.pc = "await_body"
    /\ \E body \in Bodies :
        LET out == Finish(call.op, target, resp.status, body)
        IN  /\ resp' = [resp EXCEPT !.body = Some(body)]
            /\ ret' = Returned(call.op, out.kind, out.val)
            /\ access_token' = IF out.install = None THEN access_token
                               ELSE out.install[1]
            /\ hook_calls' = hook_calls
                    + HookInvocations(call.op, resp.status, session_expiry_hook)
    /\ call' = [call EXCEPT !.pc = "idle"]
    /\ UNCHANGED <<prev, other, target, api_key, session_expiry_hook, wire, pre>>

\* the caller drops the future at a suspension point
Cancel ==
    /\ call.pc # "idle"
    /\ call' = [call EXCEPT !.pc = "idle"]
    /\ ret' = Returned(call.op, "Cancelled", JNull)
    /\ UNCHANGED <<prev, hook_calls, other, target, api_key, access_token, session_expiry_hook,
                   wire, resp, pre>>

\* the caller takes the result of the finished call; the record of that
\* call (arguments, request, response, result) is dropped
Return ==
    /\ call.pc = "idle"
    /\ ret.kind # "none"
    /\ ret' = NoRet
    /\ wire' = <<>>
    /\ resp' = NoResp
    /\ pre' = Creds
    /\ call' = Idle
    /\ UNCHANGED <<prev, hook_calls, other, target, api_key, access_token, session_expiry_hook>>

Next ==
    \/ call_build_url
    \/ login_url
    \/ get_access_token
    \/ get_session_expiry_hook
    \/ set_access_token
    \/ set_session_expiry_hook
    \/ generate_session
    \/ renew_access_token
    \/ invalidate_access_token
    \/ invalidate_refresh_token
    \/ margins
    \/ profile
    \/ holdings
    \/ positions
    \/ place_order
    \/ modify_order
    \/ cancel_order
    \/ exit_order
    \/ orders
    \/ order_history
    \/ trades
    \/ order_trades
    \/ convert_position
    \/ mf_orders
    \/ trigger_range
    \/ instruments
    \/ mf_instruments
    \/ DigestResolve
    \/ SendFails
    \/ SendResolves
    \/ BodyFails
    \/ BodyArrives
    \/ Cancel
    \/ Return

Spec == Init /\ [][Next]_vars

(***************************************************************************)
(* The same read repeated: the caller keeps the request, the response and  *)
(* the result of a call when it takes the result, and calls again.         *)
(***************************************************************************)
\* the caller takes the result of the finished call and keeps the call
ReturnAndKeep ==
    /\ call.pc = "idle"
    /\ ret.kind # "none"
    /\ prev' = [live |-> TRUE, op |-> call.op, wire |-> wire, resp |-> resp,
                ret |-> ret]
    /\ ret' = NoRet
    /\ wire' = <<>>
    /\ resp' = NoResp
    /\ pre' = Creds
    /\ call' = Idle
    /\ UNCHANGED <<hook_calls, other, target, api_key, access_token,
                   session_expiry_hook>>

\* reads through GET, one JSON-mode and one tabular, called again and again
TwiceNext ==
    \/ holdings
    \/ instruments
    \/ SendFails
    \/ SendResolves
    \/ BodyFails
    \/ BodyArrives
    \/ ReturnAndKeep

TwiceSpec == Init /\ [][TwiceNext]_vars

(***************************************************************************)
(* Two instances related by clone().  #[derive(Clone)] clones each field:  *)
(* a String into a buffer of its own, the hook as a plain fn pointer.  The *)
(* second instance is other; its token is a cell that says whether the     *)
(* buffer is its own.                                                      *)
(***************************************************************************)
\* a variant of CloneString that hands out a handle on the same buffer
CloneStringShared(s) == [shared |-> TRUE, val |-> s]

\* String::clone: a new buffer with the same text
CloneString(s) == [shared |-> FALSE, val |-> s]

\* the access token the second instance reads
OtherToken ==
    IF other.access_token.shared THEN access_token
    ELSE other.access_token.val

\* the second instance becomes o, and stores the token tok if there is one
OtherBecomes(o, tok) ==
    IF tok = None
    THEN other' = o /\ UNCHANGED access_token
    ELSE IF other.access_token.shared
    THEN other' = o /\ access_token' = tok[1]
    ELSE /\ other' = [o EXCEPT !.access_token = [shared |-> FALSE, val |-> tok[1]]]
         /\ UNCHANGED access_token

\* let b = a.clone()
clone ==
    /\ Ready
    /\ ~other.live
    /\ other' = [live |-> TRUE,
                 api_key |-> api_key,
                 access_token |-> CloneString(access_token),
                 session_expiry_hook |-> session_expiry_hook,
                 op |-> "none", pc |-> "idle", wire |-> <<>>,
                 sent_token |-> <<>>]
    /\ UNCHANGED <<prev, hook_calls, target, api_key, access_token, session_expiry_hook,
                   call, wire, resp, ret, pre>>

\* b.set_access_token(t)
other_set_access_token ==
    /\ other.live
    /\ other.pc = "idle"
    /\ \E t \in Tokens :
          OtherBecomes(other, Some(t))
    /\ UNCHANGED <<prev, hook_calls, target, api_key, session_expiry_hook,
                   call, wire, resp, ret, pre>>

\* a call on the second instance up to send().await (a call that panics
\* on its token sends nothing and leaves the instance as it was)
OtherDispatch(op, method, url, data) ==
    LET r == send_request(other.api_key, OtherToken, url, method, data)
    IN  /\ other.live
        /\ other.pc = "idle"
        /\ r.outcome = "sent"
        /\ other' = [other EXCEPT !.op = op, !.pc = "await_send",
                                  !.wire = <<r.req>>,
                                  !.sent_token = OtherToken]
        /\ UNCHANGED <<prev, hook_calls, target, api_key, access_token, session_expiry_hook,
                       call, wire, resp, ret, pre>>

\* b.profile()
other_profile ==
    OtherDispatch("profile", "GET", build_url(P_user_profile, None), None)

\* b.generate_session(request_token, api_secret), native checksum
other_generate_session ==
    \E request_token \in {<<"r">>}, api_secret \in {<<"Z">>} :
        OtherDispatch("generate_session", "POST",
            build_url(P_session_token, None),
            Some(("api_key" :> other.api_key)
                   @@ ("request_token" :> request_token)
                   @@ ("checksum" :>
                         compute_checksum(
                           ChecksumInput(other.api_key, request_token,
                                         api_secret)))))

\* the call on the second instance runs to its end
OtherCompletes ==
    /\ other.live
    /\ other.pc = "await_send"
    /\ \E status \in Statuses, body \in {BodySession, BodyErrorText} :
          LET out == Finish(other.op, "native", status, body)
          IN  OtherBecomes([other EXCEPT !.op = "none", !.pc = "idle",
                                         !.wire = <<>>, !.sent_token = <<>>],
                           out.install)
    /\ UNCHANGED <<prev, hook_calls, target, api_key, session_expiry_hook,
                   call, wire, resp, ret, pre>>

\* the first instance: token writes and a request
CloneNext ==
    \/ clone
    \/ other_set_access_token
    \/ other_profile
    \/ other_generate_session
    \/ OtherCompletes
    \/ set_access_token
    \/ generate_session
    \/ renew_access_token
    \/ profile
    \/ DigestResolve
    \/ SendFails
    \/ SendResolves
    \/ BodyFails
    \/ BodyArrives
    \/ Cancel
    \/ Return

CloneSpec == Init /\ [][CloneNext]_vars

(***************************************************************************)
(* Properties.                                                             *)
(***************************************************************************)
\* the last call ran to its end with the body b read
Finished(ops) == ret.op \in ops /\ ret.kind \in {"Ok", "Err", "Panic"}
BodyRead == resp.body # None
Non2xx == resp.status < 200 \/ resp.status > 299
TwoXX == resp.status >= 200 /\ resp.status <= 299

\* the value of the Authorization header for a key and a token
TokenHeader(key, token) ==
    <<"t", "o", "k", "e", "n", " ">> \o key \o <<":">> \o token

\* C1: when generate_session gets a 2xx response whose JSON body holds a
\* string at data.access_token, the stored access token is that string and
\* the call returns the whole decoded body, whatever the token was before.
C1_GenerateSessionInstalls ==
    (/\ Finished({"generate_session"})
     /\ BodyRead
     /\ TwoXX
     /\ ParseJson(resp.body[1]).ok
     /\ JIndex(JIndex(ParseJson(resp.body[1]).v, W_data), W_access_token).t = "str")
    => /\ access_token =
            JIndex(JIndex(ParseJson(resp.body[1]).v, W_data), W_access_token).s
       /\ ret.kind = "Ok"
       /\ ret.val = ParseJson(resp.body[1]).v

\* a generate_session that replaced a different token by the server's
C1_Witness ==
    /\ ret.op = "generate_session"
    /\ ret.kind = "Ok"
    /\ resp.body = Some(BodyBoth)
    /\ pre.access_token = <<"t", "0">>
    /\ access_token = ServerTokenA

\* a call of generate_session or renew_access_token that returned an error:
\* the checksum failed, the transport failed, the status was not 2xx, or the
\* 2xx body was not JSON
SessionFailed == ret.op \in SessionOps /\ ret.kind = "Err"

\* C2: after every failing generate_session or renew_access_token the
\* stored access token, api_key and the session-expiry hook are what they
\* were before the call.
C2_FailureLeavesCredentials ==
    SessionFailed =>
        /\ access_token = pre.access_token
        /\ api_key = pre.api_key
        /\ session_expiry_hook = pre.session_expiry_hook

\* a generate_session refused with a body that holds a usable token
C2_Witness ==
    /\ ret.op = "generate_session"
    /\ ret.kind = "Err"
    /\ resp.status = 403
    /\ resp.body = Some(BodySession)
    /\ access_token = <<"t", "0">>

\* C3: after renew_access_token gets a 2xx response (with a string at the
\* top-level access_token) the stored token is that top-level field, not
\* data.access_token; and the request was a POST to /session/refresh_token
\* with exactly api_key, access_token and checksum, the checksum being the
\* hash of api_key, access_token, api_secret in that order.
C3_RenewInstallsTopLevel ==
    /\ (/\ Finished({"renew_access_token"})
        /\ BodyRead
        /\ TwoXX
        /\ ParseJson(resp.body[1]).ok
        /\ JIndex(ParseJson(resp.body[1]).v, W_access_token).t = "str")
       => /\ access_token = JIndex(ParseJson(resp.body[1]).v, W_access_token).s
          /\ ret.kind = "Ok"
    /\ (call.op = "renew_access_token" /\ wire # <<>>)
       => /\ Len(wire) = 1
          /\ wire[1].method = "POST"
          /\ UrlStr(wire[1].url) = URL \o P_session_refresh_token
          /\ wire[1].body.data # None
          /\ DOMAIN wire[1].body.data[1] = {"api_key", "access_token", "checksum"}
          /\ wire[1].body.data[1]["api_key"] = pre.api_key
          /\ wire[1].body.data[1]["access_token"] = call.arg
          /\ wire[1].body.data[1]["checksum"] =
                hex_encode(Sha256(as_bytes(pre.api_key \o call.arg \o call.secret)))

\* a renewal whose response held a different token under data
C3_Witness ==
    /\ ret.op = "renew_access_token"
    /\ ret.kind = "Ok"
    /\ resp.body = Some(BodyBoth)
    /\ access_token = ServerTokenB
    /\ pre.access_token # ServerTokenB

\* C4 as stated: the stored access token changes only in a step that ends a
\* successful generate_session or renew_access_token.
C4_OnlySessionWrites ==
    [][access_token' # access_token
        => (ret'.op \in SessionOps /\ ret'.kind = "Ok")]_vars

\* C4 amended: the stored access token changes only in a step that ends a
\* successful generate_session or renew_access_token, or in a call of
\* set_access_token.
C4_OnlySessionOrSetterWrites ==
    [][access_token' # access_token
        => \/ (ret'.op \in SessionOps /\ ret'.kind = "Ok")
           \/ ret'.op = "set_access_token"]_vars

\* the token was changed by set_access_token
C4_Witness ==
    /\ ret.op = "set_access_token"
    /\ access_token # pre.access_token

\* C5: invalidate_access_token and invalidate_refresh_token send one DELETE
\* request, to /session/token and /session/refresh_token, and leave
\* api_key, the stored token and the hook unchanged for every status and on
\* a transport error.
C5_InvalidateLeavesState ==
    /\ (call.op \in InvalidateOps)
       => /\ access_token = pre.access_token
          /\ api_key = pre.api_key
          /\ session_expiry_hook = pre.session_expiry_hook
    /\ (call.op \in InvalidateOps /\ (call.pc # "idle" \/ ret.kind \in {"Ok", "Err"}))
       => /\ Len(wire) = 1
          /\ wire[1].method = "DELETE"
          /\ UrlStr(wire[1].url) =
                IF call.op = "invalidate_access_token"
                THEN URL \o P_session_token
                ELSE URL \o P_session_refresh_token

\* the server confirmed the invalidation of the very token the instance holds
C5_Witness ==
    /\ ret.op = "invalidate_access_token"
    /\ ret.kind = "Ok"
    /\ resp.status = 200
    /\ wire[1].body.data = Some("access_token" :> <<"t", "0">>)
    /\ access_token = <<"t", "0">>

\* C6: every request sent carries exactly one Authorization header, of
\* value "token <api_key>:<access_token>" for the key and token the instance
\* holds when the request is sent, with the version header "3" and the
\* client-identifier header; while the request is in flight the instance
\* holds no other token than the one sent.
C6_RequestCarriesCurrentCredentials ==
    \A i \in 1..Len(wire) :
        /\ HeaderCount(wire[i], "authorization") = 1
        /\ HeaderValues(wire[i], "authorization") =
              {TokenHeader(pre.api_key, pre.access_token)}
        /\ HeaderValues(wire[i], "xkiteversion") = {<<"3">>}
        /\ HeaderValues(wire[i], "user-agent") = {<<"R", "u", "s", "t">>}
        /\ Len(wire[i].headers) = 3
        /\ call.pc # "idle" =>
              /\ access_token = pre.access_token
              /\ api_key = pre.api_key

\* a request in flight from an instance that holds the empty token
C6_Witness ==
    /\ call.op = "holdings"
    /\ call.pc = "await_send"
    /\ access_token = <<>>
    /\ api_key = <<"K", "2">>
    /\ HeaderValues(wire[1], "authorization") =
          {<<"t", "o", "k", "e", "n", " ", "K", "2", ":">>}

\* C7: the token a session call writes becomes visible only when the call
\* has completed: until then the instance holds the pre-call token, the
\* handshake request carries the pre-call token, and a request issued
\* afterwards carries the token the instance then holds, the installed one.
C7_TokenVisibleAfterCompletion ==
    /\ (call.op \in SessionOps /\ call.pc # "idle")
       => access_token = pre.access_token
    /\ (call.op \in SessionOps /\ wire # <<>>)
       => HeaderValues(wire[1], "authorization") =
              {TokenHeader(api_key, pre.access_token)}
    /\ (call.op \notin SessionOps /\ wire # <<>>)
       => HeaderValues(wire[1], "authorization") =
              {TokenHeader(api_key, access_token)}
    /\ (ret.op \in SessionOps /\ ret.kind = "Ok")
       => access_token =
            IF ret.op = "generate_session"
            THEN JIndex(JIndex(ret.val, W_data), W_access_token).s
            ELSE JIndex(ret.val, W_access_token).s

\* a later request carrying the token a generate_session installed
C7_Witness ==
    /\ call.op = "profile"
    /\ call.pc = "await_send"
    /\ access_token = ServerTokenA
    /\ HeaderValues(wire[1], "authorization") =
          {TokenHeader(api_key, ServerTokenA)}

\* C8: the body encoding of a request follows from its verb alone: none for
\* GET (also when a map is supplied), form for POST and PUT, JSON for
\* DELETE; cancel_order and the invalidate calls send JSON, place_order and
\* modify_order send form data.
C8_BodyEncodingByVerb ==
    /\ \A i \in 1..Len(wire) :
        /\ wire[i].method = "GET"
              => wire[i].body = [encoding |-> "none", data |-> None]
        /\ wire[i].method \in {"POST", "PUT"}
              => wire[i].body.encoding = "form" /\ wire[i].body.data # None
        /\ wire[i].method = "DELETE"
              => wire[i].body.encoding = "json" /\ wire[i].body.data # None
        /\ call.op \in {"cancel_order", "exit_order"} \cup InvalidateOps
              => wire[i].method = "DELETE" /\ wire[i].body.encoding = "json"
        /\ call.op = "place_order"
              => wire[i].method = "POST" /\ wire[i].body.encoding = "form"
        /\ call.op = "modify_order"
              => wire[i].method = "PUT" /\ wire[i].body.encoding = "form"
    /\ \A key \in ApiKeys :
        send_request(key, <<>>, build_url(P_orders, None), "GET",
                     Some("order_id" :> <<"7">>)).req.body
            = [encoding |-> "none", data |-> None]

\* a cancel_order on the wire with its JSON map
C8_Witness ==
    /\ call.op = "cancel_order"
    /\ call.pc = "await_send"
    /\ wire[1].method = "DELETE"
    /\ wire[1].body = [encoding |-> "json",
                       data |-> Some(("order_id" :> <<"7">>)
                                       @@ ("variety" :> <<"c", "o">>))]

\* C9: for every JSON-mode endpoint method and for the two session calls, a
\* non-2xx response with body B makes the call fail with an error whose
\* message is exactly B, also when B is valid JSON.
C9_ErrorBodyVerbatim ==
    (/\ Finished(JsonOps \cup SessionOps)
     /\ BodyRead
     /\ Non2xx)
    => /\ ret.kind = "Err"
       /\ ret.val.msg = resp.body[1]
       /\ ret.val.src = "adhoc"
       /\ ret.val.context = None

\* an order refused with a body that is valid JSON
C9_Witness ==
    /\ ret.op = "place_order"
    /\ ret.kind = "Err"
    /\ resp.status = 403
    /\ resp.body = Some(BodySession)
    /\ ret.val.msg = BodySession

\* C10: when instruments or mf_instruments gets a non-2xx response, the call
\* fails with an error carrying the body text verbatim; the body is neither
\* parsed as CSV nor returned as a success.
C10_TabularErrorBodyVerbatim ==
    (/\ Finished(TabularOps)
     /\ BodyRead
     /\ Non2xx)
    => /\ ret.kind = "Err"
       /\ ret.val.msg = resp.body[1]

\* the errors a JSON-mode method returns for a refused request
ApiErrors ==
    {raise_or_return_json(st, b).val :
        st \in {x \in Statuses : ~is_success(x)}, b \in Bodies}

\* C11: a JSON-mode method returns the decoded value of a 2xx JSON body as
\* it is, the data envelope included; a 2xx body that is not JSON makes it
\* fail with a decode error that is none of the errors of a refused request.
C11_DecodeErrorDistinct ==
    (/\ Finished(JsonOps)
     /\ BodyRead
     /\ TwoXX)
    => IF ParseJson(resp.body[1]).ok
       THEN /\ ret.kind = "Ok"
            /\ ret.val = ParseJson(resp.body[1]).v
       ELSE /\ ret.kind = "Err"
            /\ ret.val.src = "reqwest_decode"
            /\ ret.val.context = Some(SerializationFailed)
            /\ ret.val \notin ApiErrors

\* a 2xx answer whose body is the very text of the decode context
C11_Witness ==
    /\ ret.op = "profile"
    /\ ret.kind = "Err"
    /\ resp.status = 200
    /\ resp.body = Some(BodySerializationFailed)
    /\ AnyhowMsg(BodySerializationFailed) \in ApiErrors

\* the last call was a native instruments / mf_instruments answered with
\* the CSV text of table tb
TabularGot(tb) ==
    /\ Finished(TabularOps)
    /\ target = "native"
    /\ resp.body = Some(CsvText(tb))

\* the result is one record per data row of tb, in the order of the rows,
\* record j mapping column name i to field i of row j as a string
RecordsOf(tb) ==
    /\ ret.kind = "Ok"
    /\ ret.val.t = "arr"
    /\ Len(ret.val.a) = Len(tb.rows)
    /\ \A j \in 1..Len(tb.rows) :
          /\ ret.val.a[j].t = "obj"
          /\ DOMAIN ret.val.a[j].m = {tb.h[i] : i \in 1..Len(tb.h)}
          /\ \A i \in 1..Len(tb.h) :
                JIndex(ret.val.a[j], tb.h[i]) = JStr(tb.rows[j][i])

\* the tables whose column names are pairwise distinct
DistinctNameTables ==
    {tb \in Tables : \A i, j \in 1..Len(tb.h) : tb.h[i] = tb.h[j] => i = j}

\* C12 as stated: on the native target a CSV body with header row h1..hn and
\* k data rows of n fields yields exactly k records in row order, record j
\* mapping each hi to field i of row j as a string; the header row is no
\* record and a header-only body yields the empty sequence.
C12_CsvRecords ==
    \A tb \in Tables : TabularGot(tb) => RecordsOf(tb)

\* C12 amended: the same for header rows whose names are pairwise distinct.
C12_CsvRecordsDistinctNames ==
    \A tb \in DistinctNameTables : TabularGot(tb) => RecordsOf(tb)

\* a two-row table returned as its two records
C12_Witness ==
    /\ ret.op = "instruments"
    /\ target = "native"
    /\ resp.body = Some(BodyCsv)
    /\ CsvText(CHOOSE tb \in DistinctNameTables : Len(tb.rows) = 2) = BodyCsv
    /\ ret.kind = "Ok"
    /\ Len(ret.val.a) = 2
    /\ JIndex(ret.val.a[2], <<"b">>) = JStr(<<"4">>)

\* C13: a data row with fewer fields than the header row does not make
\* instruments or mf_instruments fail: the call succeeds, that row yields a
\* record with only the keys of the fields it has, and the other rows yield
\* their records as usual.
C13_ShortRowTolerated ==
    (/\ Finished(TabularOps)
     /\ target = "native"
     /\ resp.body = Some(BodyCsvShortRow))
    => /\ ret.kind = "Ok"
       /\ ret.val.t = "arr"
       /\ Len(ret.val.a) = 1
       /\ ret.val.a[1] = JObj(<<"a">> :> JStr(<<"1">>))

\* C14: while a generate_session or renew_access_token is under way, and
\* when it is cancelled at a suspension point, the stored token is the
\* pre-call token; the token is written in one step only, the step that has
\* the whole body, decoded, with the token field in it.
C14_CancelLeavesToken ==
    [][(call.op \in SessionOps /\ call.pc # "idle")
        => /\ access_token = pre.access_token
           /\ ret'.kind = "Cancelled" => access_token' = pre'.access_token
           /\ access_token' # access_token
                => /\ call.pc = "await_body"
                   /\ ret'.kind = "Ok"
                   /\ resp'.body # None
                   /\ ParseJson(resp'.body[1]).ok
                   /\ Some(access_token') =
                        as_str(IF call.op = "generate_session"
                               THEN JIndex(JIndex(ParseJson(resp'.body[1]).v,
                                                  W_data), W_access_token)
                               ELSE JIndex(ParseJson(resp'.body[1]).v,
                                           W_access_token))]_vars

\* a generate_session dropped while the body of a 2xx response was awaited
C14_Witness ==
    /\ ret.op = "generate_session"
    /\ ret.kind = "Cancelled"
    /\ resp.status = 200
    /\ resp.body = None
    /\ access_token = pre.access_token

\* C15: of two instances related by clone, a token write on one
\* (generate_session, renew_access_token, set_access_token) leaves the token
\* of the other unchanged, in every interleaving with the other's requests,
\* and a request of the other carries the other's own token.
C15_ClonesHoldOwnToken ==
    /\ [](other.live /\ other.pc = "await_send"
            => /\ HeaderValues(other.wire[1], "authorization") =
                     {TokenHeader(other.api_key, other.sent_token)}
               /\ OtherToken = other.sent_token)
    /\ [][other.live
            => /\ access_token' # access_token
                    => OtherToken' = OtherToken /\ other' = other
               /\ OtherToken' # OtherToken
                    => /\ access_token' = access_token
                       /\ wire' = wire]_vars

\* the clone has a request in flight with the token both instances began
\* with, and the first instance has since installed the server's token
C15_Witness ==
    /\ other.live
    /\ other.pc = "await_send"
    /\ other.op = "profile"
    /\ OtherToken = <<"t", "0">>
    /\ HeaderValues(other.wire[1], "authorization") =
          {TokenHeader(other.api_key, <<"t", "0">>)}
    /\ ret.op = "generate_session"
    /\ ret.kind = "Ok"
    /\ pre.access_token = <<"t", "0">>
    /\ access_token = ServerTokenA

\* the methods that hand a decoded result to their caller (the invalidate
\* calls hand over the response itself, status included)
DecodingOps == JsonOps \cup SessionOps \cup TabularOps

\* C16: a call of a public method sends at most one request; when the
\* request fails in transport, is answered non-2xx, or is answered with a
\* body that cannot be decoded, the method returns the failure: no second
\* request, no success value in its place.
C16_OneRequestFailureSurfaces ==
    /\ Len(wire) <= 1
    /\ (Finished(DecodingOps) /\ wire # <<>> /\ resp.status = 0)
       => ret.kind = "Err"
    /\ (Finished(DecodingOps) /\ BodyRead /\ Non2xx)
       => ret.kind = "Err"
    /\ (Finished(JsonOps \cup SessionOps) /\ BodyRead /\ TwoXX
            /\ ~ParseJson(resp.body[1]).ok)
       => ret.kind = "Err"

LoginPrefix ==
    <<"h", "t", "t", "p", "s", ":", "/", "/">>
      \o <<"k", "i", "t", "e", ".", "t", "r", "a", "d", "e">>
      \o <<"/", "c", "o", "n", "n", "e", "c", "t", "/", "l", "o", "g", "i", "n">>
      \o <<"?", "a", "p", "i", "_", "k", "e", "y", "=">>
LoginSuffix == <<"&", "v", "3">>

\* C19: login_url() is "https://kite.trade/connect/login?api_key=" followed
\* by the api_key given to new and by "&v3", whatever the access token is
\* and whatever token writes came before.
C19_LoginUrl ==
    /\ [](ret.op = "login_url"
            => ret.val = JStr(LoginPrefix \o api_key \o LoginSuffix))
    /\ [][api_key' = api_key]_vars

\* the login address of key K2 asked for after a session call installed a
\* token
C19_Witness ==
    /\ ret.op = "login_url"
    /\ api_key = <<"K", "2">>
    /\ access_token = ServerTokenA
    /\ SubSeq(ret.val.s, 33, Len(ret.val.s)) =
          <<"?", "a", "p", "i", "_", "k", "e", "y", "=", "K", "2", "&", "v", "3">>

\* the calls that write the token
TokenWrites == {"set_access_token"} \cup SessionOps

\* C20: access_token() returns the stored token, which is the token given
\* to new until a token write; set_access_token(x) stores x, the empty
\* string included, so the last write wins; set_access_token leaves api_key
\* as it was.
C20_SetterGetter ==
    /\ [](ret.op = "access_token" => ret.val = JStr(access_token))
    /\ [](ret.op = "set_access_token"
            => access_token = call.arg /\ api_key = pre.api_key)
    /\ [][ret'.op \notin TokenWrites => access_token' = access_token]_vars

\* the empty string written over the token given to new
C20_Witness ==
    /\ ret.op = "set_access_token"
    /\ call.arg = <<>>
    /\ pre.access_token = <<"t", "0">>
    /\ access_token = <<>>

\* C21: a client fresh from new has no hook and session_expiry_hook()
\* returns the stored Option; set_session_expiry_hook(f) stores Some(f) and
\* leaves api_key and the access token as they were; once a hook is set no
\* operation resets it to None, and only the setter changes it.
C21_HookSetterGetter ==
    /\ session_expiry_hook = None
    /\ [](ret.op = "session_expiry_hook"
            => ret.val = [t |-> "option", v |-> session_expiry_hook])
    /\ [](ret.op = "set_session_expiry_hook"
            => /\ session_expiry_hook = Some(call.arg)
               /\ api_key = pre.api_key
               /\ access_token = pre.access_token)
    /\ [][/\ session_expiry_hook # None => session_expiry_hook' # None
          /\ session_expiry_hook' # session_expiry_hook
                => ret'.op = "set_session_expiry_hook"]_vars

\* a second hook set over the first one
C21_Witness ==
    /\ ret.op = "set_session_expiry_hook"
    /\ pre.session_expiry_hook = Some("mock_hook")
    /\ call.arg = "handle_session_expiry"
    /\ session_expiry_hook = Some("handle_session_expiry")

\* whether text sub occurs in text
Contains(text, sub) == \E i \in 1..Len(text) : StartsAt(text, i, sub)

\* C22: generate_session sends one POST to /session/token whose params are
\* exactly api_key (the instance's), request_token (the argument) and
\* checksum, the hash of api_key, request_token, api_secret put together
\* with nothing between them; api_secret occurs in no param, header or URL.
C22_GenerateSessionRequest ==
    /\ Len(wire) <= 1
    /\ (call.op = "generate_session" /\ call.pc \in {"await_send", "await_body"})
       => Len(wire) = 1
    /\ (call.op = "generate_session" /\ wire # <<>>)
       => LET req == wire[1]
              data == req.body.data[1]
          IN  /\ req.method = "POST"
              /\ UrlStr(req.url) = URL \o P_session_token
              /\ req.url.query = None
              /\ req.body.encoding = "form"
              /\ DOMAIN data = {"api_key", "request_token", "checksum"}
              /\ data["api_key"] = api_key
              /\ data["request_token"] = call.arg
              /\ data["checksum"] =
                    hex_encode(Sha256(as_bytes(api_key \o call.arg \o call.secret)))
              /\ \A k \in DOMAIN data : ~Contains(data[k], call.secret)
              /\ \A i \in 1..Len(req.headers) :
                    ~Contains(req.headers[i][2], call.secret)
              /\ ~Contains(UrlStr(req.url), call.secret)

\* the handshake request of key K2 for request token rq and secret S2
C22_Witness ==
    /\ call.op = "generate_session"
    /\ call.pc = "await_send"
    /\ call.arg = <<"r", "q">>
    /\ call.secret = <<"S", "2">>
    /\ wire[1].body.data[1]["api_key"] = <<"K", "2">>
    /\ wire[1].body.data[1]["checksum"] =
          hex_encode(Sha256(as_bytes(<<"K", "2", "r", "q", "S", "2">>)))

\* the errors of the wasm32 checksum when the host's crypto is not there
CryptoErrors ==
    {AnyhowMsg(NoWindowObject), AnyhowMsg(NoCryptoObject),
     AnyhowMsg(FailedToCreateDigest), AnyhowMsg(FailedToComputeHash)}

\* C23: on wasm32, a generate_session or renew_access_token whose host has
\* no window, no crypto object or fails the digest returns the error of the
\* checksum, sends no request and leaves the stored token as it was; a
\* session request that is sent always carries the digest of its input,
\* never an empty or other checksum.
C23_CryptoUnavailable ==
    /\ (/\ target = "wasm32"
        /\ ret.op \in SessionOps
        /\ ret.kind \in {"Ok", "Err"}
        /\ wire = <<>>)
       => /\ ret.kind = "Err"
          /\ ret.val \in CryptoErrors
          /\ access_token = pre.access_token
    /\ (ret.op \in SessionOps /\ ret.kind = "Err" /\ ret.val \in CryptoErrors)
       => /\ target = "wasm32"
          /\ wire = <<>>
          /\ resp = NoResp
          /\ access_token = pre.access_token
    /\ (call.op \in SessionOps /\ wire # <<>>)
       => /\ wire[1].body.data[1]["checksum"] =
                hex_encode(Sha256(as_bytes(api_key \o call.arg \o call.secret)))
          /\ Len(wire[1].body.data[1]["checksum"]) = 2 * DigestLen

\* a renewal refused by a host without a crypto object
C23_Witness ==
    /\ target = "wasm32"
    /\ ret.op = "renew_access_token"
    /\ ret.kind = "Err"
    /\ ret.val = AnyhowMsg(NoCryptoObject)
    /\ wire = <<>>
    /\ access_token = pre.access_token

\* the read methods that send a GET
GetReadOps ==
    {"margins", "profile", "holdings", "positions", "orders", "order_history",
     "trades", "order_trades", "mf_orders", "trigger_range", "instruments",
     "mf_instruments"}

\* C24: the same GET read called twice on one instance (with the same
\* argument, which shows in the path of the request), answered with the
\* same status and body both times, gives the same result both times (the
\* same value or the same error) and sends the same request; a read leaves
\* the fields of the instance as they were.
C24_RepeatedReadSameResult ==
    /\ (/\ prev.live
        /\ Finished(GetReadOps)
        /\ BodyRead
        /\ prev.op = call.op
        /\ prev.wire[1].url.path = wire[1].url.path
        /\ prev.resp = resp)
       => /\ ret = prev.ret
          /\ wire = prev.wire
    /\ Finished(GetReadOps) => Creds = pre

\* holdings refused twice with the same body
C24_Witness ==
    /\ prev.live
    /\ ret.op = "holdings"
    /\ prev.op = "holdings"
    /\ resp = [status |-> 403, body |-> Some(BodyErrorText)]
    /\ prev.resp = resp
    /\ ret.kind = "Err"
    /\ ret = prev.ret

\* the checksum field of the request a session method has sent
SentChecksum == wire[1].body.data[1]["checksum"]

\* the lowercase hexadecimal digits
LowerHexDigits == {HexLower[i] : i \in 1..Len(HexLower)}

ExpectedTokenField(op, jsn) ==
    IF op = "generate_session" THEN SessionTokenField(jsn)
    ELSE RenewTokenField(jsn)

\* C26: when generate_session or renew_access_token gets a 2xx response whose
\* body is valid JSON without a string at the expected access-token field,
\* the call returns an error value to its caller, it does not abort the
\* caller, and the stored access token is unchanged.
C26_MissingTokenIsDecodeError ==
    (/\ Finished(SessionOps)
     /\ BodyRead
     /\ TwoXX
     /\ ParseJson(resp.body[1]).ok
     /\ as_str(ExpectedTokenField(ret.op, ParseJson(resp.body[1]).v)) = None)
    => /\ ret.kind = "Err"
       /\ access_token = pre.access_token

\* C27: invalidate_access_token and invalidate_refresh_token return the raw
\* response as a success value for every status, 2xx or not; they return an
\* error only when the request fails in transport, and never an error made
\* from a refusal of the server.
C27_InvalidateReturnsRawResponse ==
    /\ (ret.op \in InvalidateOps /\ ret.kind \in {"Ok", "Err"}
            /\ resp # NoResp)
       => /\ ret.kind = "Ok"
          /\ ret.val = [t |-> "response", status |-> resp.status]
          /\ resp.body = None
    /\ (ret.op \in InvalidateOps /\ ret.kind = "Err")
       => /\ ret.val = ReqwestError("reqwest_request")
          /\ wire # <<>>
          /\ resp = NoResp
          /\ ret.val \notin ApiErrors
    /\ (ret.op \in InvalidateOps /\ ret.kind = "Ok")
       => /\ resp.status \in Statuses
          /\ access_token = pre.access_token

\* invalidate_refresh_token refused with 403 returns the response as Ok
C27_Witness ==
    /\ ret.op = "invalidate_refresh_token"
    /\ resp.status = 403
    /\ ret.kind = "Ok"
    /\ ret.val = [t |-> "response", status |-> 403]

=============================================================================
